---- MODULE Spec2Model ----
(***************************************************************************)
(* Model of the subprocess controller Cmd of bobcatalyst/subflow           *)
(* (src/command.go, lines 90-313) with its callers (Start, Push, Listen,   *)
(* Close/CloseTimeout), its goroutines (runCmd, pipeInput, the             *)
(* stdout/stderr kindWriter shims, the context.AfterFunc watcher) and the  *)
(* two flow.Stream channels it uses (cmd.in, cmd.out); and of the          *)
(* functions WithEnv and commandCollect on Command values (lines 58-77).   *)
(***************************************************************************)
EXTENDS Integers, Sequences, FiniteSets, TLC

\* ------------------------------------------------------------------ bounds
MaxStartCalls == 2      \* Start() calls made by the callers (Spec)
OneStart      == 1      \* Start() calls made (StreamSpec, InputSpec)
NClosers      == 2      \* explicit Close()/CloseTimeout() callers
MaxPushed     == 2      \* Input values pushed (InputSpec)
MaxBatch      == 2      \* Input values given to one Push call (InputSpec)
StreamPushed  == 1      \* Input values pushed (StreamSpec)
MaxChunks     == 1      \* chunks the process writes to stdout/stderr (StreamSpec)
ShimChunks    == 3      \* chunks the process writes to stdout/stderr (ShimSpec)
MaxWords      == 2      \* strings in an args, env or additions list

Watcher    == 0                       \* the AfterFunc callback's Close()
Callers    == 1..NClosers
AllClosers == {Watcher} \cup Callers
\* One subscription, made at any moment: Listen changes nothing a publisher
\* or another subscription reads, so each subscription is observed alone.
Subs       == {"sub"}
Shims      == {"Stdout", "Stderr"}
NonZero    == {3}                     \* a non-zero exit status

VARIABLES
    started,      \* cmd.started (atomic.Bool)
    ctxDone,      \* cmd.ctx is cancelled
    watcher,      \* cmd.stop's AfterFunc: "armed", "stopped" or "fired"
    killOnce,     \* cmd.killOnce: "fresh", "running" or "done"
    waitCloses,   \* number of close(cmd.wait) executed
    cleanups,     \* cleanupCmd runs: <<from runCmd, from a Close call>>
    waitErr,      \* cmd.waitErr, the set of joined errors
    waitErrLate,  \* cmd.waitErr was written after close(cmd.wait)
    stdinCloses,  \* number of Close() calls made on the stdin pipe
    rpc,          \* position of the runCmd goroutine
    code,         \* the code variable captured by exitCode's closures
    launches,     \* number of `go cmd.runCmd()` executed
    spawned,      \* number of processes spawned by cmd.cmd.Run
    kills,        \* number of Process.Signal(os.Kill) sent by CloseTimeout
    killNil,      \* a Signal was sent through a nil cmd.cmd.Process
    nStart,       \* Start() calls made
    startWon,     \* Start() calls that won the compare-and-swap
    cpc,          \* position of each Close/CloseTimeout call
    ctimed,       \* the call's timeout > 0
    cnever,       \* the call won the never-started compare-and-swap
    ckill,        \* the call ran the wait-then-kill function of killOnce
    cret,         \* the error the call returned
    ppc,          \* position of the pipeInput goroutine
    inq,          \* items buffered in pipeInput's subscription to cmd.in
    cur,          \* <<item, n, failed>> of the item pipeInput is handling
    wrote,        \* write attempts made on stdin: <<item, n>>
    nPushed,      \* items pushed to cmd.in so far (item i is the i-th pushed)
    preStart,     \* items pushed before the first Start() call
    outLog,       \* every message published to cmd.out, in order
    outClosed,    \* cmd.out has been closed
    outEnd,       \* Len(outLog) when cmd.out was closed
    outFinal,     \* number of final items cmd.out was closed with
    wpc,          \* position of each kindWriter shim
    nChunks,      \* chunks handed to the shims so far (chunk b is the b-th)
    wret,         \* what each shim's last Write returned: <<n, err>>
    subFrom,      \* Len(outLog) at the subscription's Listen, -1: none yet
    subPre,       \* the subscription was made before any Start() call
    subPost,      \* the subscription was made after a Start() call returned
    wspec,        \* the Command value given to WithEnv and commandCollect
    wadd,         \* the env argument of WithEnv
    wnew,         \* the value WithEnv returned
    wgot,         \* the (command, args, env) commandCollect returned
    wdone         \* which of "WithEnv", "commandCollect" have been called

ctlVars  == <<started, ctxDone, watcher, killOnce, waitCloses, cleanups,
              waitErr, waitErrLate, stdinCloses>>
runVars  == <<rpc, code, launches, spawned, kills, killNil, nStart, startWon>>
clVars   == <<cpc, ctimed, cnever, ckill, cret>>
pumpVars == <<ppc, inq, cur, wrote, nPushed, preStart>>
outVars  == <<outLog, outClosed, outEnd, outFinal>>
shimVars == <<wpc, nChunks, wret>>
subVars  == <<subFrom, subPre, subPost>>
specVars == <<wspec, wadd, wnew, wgot, wdone>>
vars     == <<ctlVars, runVars, clVars, pumpVars, outVars, shimVars, subVars,
              specVars>>

\* ---------------------------------------------------------------- messages
ItemLen         == 2    \* bytes of every pushed Input
ChunkLen        == 2    \* bytes of every chunk the process writes
StartMsg        == <<"Start", 0, 0>>
ExitMsg(c)      == <<"Exit", c, 0>>
StdioMsg(k, b)  == <<k, b, ChunkLen>>
StdinMsg(i, n)  == <<"Stdin", i, n>>

\* ------------------------------------------------ flow.Stream (cmd.out)
\* Push: publish to the current subscribers.  A publish made after the
\* channel was closed is still recorded in outLog, past outEnd.
StreamPush(m) ==
    /\ outLog' = Append(outLog, m)
    /\ UNCHANGED <<outClosed, outEnd, outFinal>>

\* Close(finalItems...): publish the final items, then end the channel.
StreamClose(final) ==
    /\ outLog' = outLog \o final
    /\ outClosed' = TRUE
    /\ outEnd' = Len(outLog) + Len(final)
    /\ outFinal' = Len(final)

\* The end of what a subscription can receive: nothing published after the
\* channel was closed.  (The scope given to Listen is taken to stay alive.)
SubLimit == IF outClosed THEN outEnd ELSE Len(outLog)

\* The messages subscription s has received so far.
Received(s) ==
    IF subFrom[s] < 0 THEN <<>> ELSE SubSeq(outLog, subFrom[s] + 1, SubLimit)

\* The subscription's sequence has ended.
SubOver(s) == subFrom[s] >= 0 /\ outClosed

\* ------------------------------------------------------------ the context
\* A context on which no AfterFunc callback was registered.
CancelFiresNever == FALSE

\* cmd.cancel(): cancels cmd.ctx; the AfterFunc child is cancelled in the
\* same call and, if still armed, starts its callback goroutine.
CancelFires == ~ctxDone /\ watcher = "armed"
Cancel ==
    /\ ctxDone' = TRUE
    /\ watcher' = IF CancelFires THEN "fired" ELSE watcher

\* cmd.stop(): stops the AfterFunc if it has not started its callback.
StopWatcher(w) == IF w = "armed" THEN "stopped" ELSE w

\* cmd.waitErr = errors.Join(cmd.waitErr, e...)
JoinWaitErr(es) ==
    /\ waitErr' = waitErr \cup es
    /\ waitErrLate' = (waitErrLate \/ waitCloses > 0)

\* The same assignment under an `if` that holds when there is an error.
JoinIfAny(es) ==
    IF es = {} THEN UNCHANGED <<waitErr, waitErrLate>> ELSE JoinWaitErr(es)

\* ------------------------------------------------------------ CommandSpec
\* The capabilities a Command value exposes besides Command(): the
\* interfaces CommandArgs and CommandEnv its type satisfies.
Caps     == {"args", "env"}
Commands == {"ls"}
ArgWords == {"-a", "-b"}
EnvWords == {"K=1", "K=2"}
SeqsUpTo(S, n) == UNION {[1..k -> S] : k \in 0..n}

\* A Command value: its dynamic type's capabilities and its fields.
MkSpec(caps, command, args, env) ==
    [caps |-> caps, command |-> command, args |-> args, env |-> env]

\* The Command values given to the functions.  A value without a capability
\* has nothing to return for it.
InputSpecs ==
    UNION {{MkSpec(caps, command, args, env) :
                command \in Commands,
                args \in (IF "args" \in caps
                            THEN SeqsUpTo(ArgWords, MaxWords) ELSE {<<>>}),
                env \in (IF "env" \in caps
                           THEN SeqsUpTo(EnvWords, MaxWords) ELSE {<<>>})} :
           caps \in SUBSET Caps}

\* commandCollect, lines 68-77: command from Command(); args from Args() if
\* the value is a CommandArgs; then, if it is a CommandEnv, Environment() is
\* assigned to args (line 74) and env is left nil.
commandCollect(sp) ==
    LET command == sp.command
        args1   == IF "args" \in sp.caps THEN sp.args ELSE <<>>
        args2   == IF "env" \in sp.caps THEN sp.env ELSE args1
        env     == <<>>
    IN  <<command, args2, env>>

\* WithEnv, lines 59-66: a new basicCommandArgs (which has all three
\* methods) of the collected command and args and append(subEnv, env...).
WithEnv(sp, env) ==
    LET c == commandCollect(sp)
    IN  MkSpec(Caps, c[1], c[2], c[3] \o env)

NoSpec == MkSpec({}, "", <<>>, <<>>)

\* No Command value is being handled.
SpecIdle ==
    /\ wspec = NoSpec /\ wadd = <<>> /\ wnew = NoSpec
    /\ wgot = <<"", <<>>, <<>>>> /\ wdone = {}

\* The controller right after New.
CmdInit ==
    /\ started = FALSE /\ ctxDone = FALSE /\ watcher = "armed"
    /\ killOnce = "fresh" /\ waitCloses = 0 /\ cleanups = <<0, 0>>
    /\ waitErr = {} /\ waitErrLate = FALSE /\ stdinCloses = 0
    /\ rpc = "none" /\ code = 0 /\ launches = 0 /\ spawned = 0
    /\ kills = 0 /\ killNil = FALSE /\ nStart = 0 /\ startWon = 0
    /\ cpc = [c \in AllClosers |-> "idle"]
    /\ ctimed = [c \in AllClosers |-> FALSE]
    /\ cnever = [c \in AllClosers |-> FALSE]
    /\ ckill = [c \in AllClosers |-> FALSE]
    /\ cret = [c \in AllClosers |-> {}]
    /\ ppc = "none" /\ inq = <<>> /\ cur = <<0, 0, FALSE>> /\ wrote = <<>>
    /\ nPushed = 0 /\ preStart = 0
    /\ outLog = <<>> /\ outClosed = FALSE /\ outEnd = 0 /\ outFinal = 0
    /\ wpc = [k \in Shims |-> "idle"] /\ nChunks = 0
    /\ wret = [k \in Shims |-> <<0, "none">>]
    /\ subFrom = [s \in Subs |-> -1]
    /\ subPre = [s \in Subs |-> FALSE] /\ subPost = [s \in Subs |-> FALSE]

Init == CmdInit /\ SpecIdle

\* --------------------------------------------- WithEnv and commandCollect
\* A call of WithEnv(wspec, wadd); the functions only read their argument.
CallWithEnv ==
    /\ "WithEnv" \notin wdone
    /\ wdone' = wdone \cup {"WithEnv"}
    /\ wnew' = WithEnv(wspec, wadd)
    /\ UNCHANGED <<wspec, wadd, wgot>>
    /\ UNCHANGED <<ctlVars, runVars, clVars, pumpVars, outVars, shimVars, subVars>>

\* A call of commandCollect(wspec), as made by initializeCommand.
CallCollect ==
    /\ "commandCollect" \notin wdone
    /\ wdone' = wdone \cup {"commandCollect"}
    /\ wgot' = commandCollect(wspec)
    /\ UNCHANGED <<wspec, wadd, wnew>>
    /\ UNCHANGED <<ctlVars, runVars, clVars, pumpVars, outVars, shimVars, subVars>>

\* The two functions applied to every Command value and list of additions.
CollectInit ==
    /\ CmdInit
    /\ wspec \in InputSpecs
    /\ wadd \in SeqsUpTo(EnvWords, MaxWords)
    /\ wnew = NoSpec /\ wgot = <<"", <<>>, <<>>>> /\ wdone = {}

CollectNext ==
    \/ CallWithEnv
    \/ CallCollect

CollectSpec == CollectInit /\ [][CollectNext]_vars

\* ------------------------------------------------------------ the callers
\* A Start whose compare-and-swap always succeeds.
StartWinsAlways == TRUE

\* cmd.started.CompareAndSwap(false, true) in Start
StartWins == started = FALSE

\* Start(): the compare-and-swap and, for its winner, `go cmd.runCmd()`.
Start(max) ==
    /\ nStart < max
    /\ nStart' = nStart + 1
    /\ IF StartWins
         THEN /\ started' = TRUE
              /\ startWon' = startWon + 1
              /\ launches' = launches + 1
              /\ rpc' = "r_start"
         ELSE UNCHANGED <<started, startWon, launches, rpc>>
    /\ UNCHANGED <<ctxDone, watcher, killOnce, waitCloses, cleanups, waitErr,
                   waitErrLate, stdinCloses, code, spawned, kills, killNil>>
    /\ UNCHANGED <<clVars, pumpVars, outVars, shimVars, subVars, specVars>>

\* Push(in...): cmd.in.Push; the items reach pipeInput's subscription if it
\* exists and its scope (cmd.ctx) is alive, and nobody otherwise.
InListening == ppc # "none" /\ ~ctxDone
Push(k, max) ==
    /\ nPushed + k <= max
    /\ nPushed' = nPushed + k
    /\ preStart' = IF nStart = 0 THEN nPushed + k ELSE preStart
    /\ inq' = IF InListening
                THEN inq \o [j \in 1..k |-> nPushed + j]
                ELSE inq
    /\ UNCHANGED <<ppc, cur, wrote>>
    /\ UNCHANGED <<ctlVars, runVars, clVars, outVars, shimVars, subVars, specVars>>

\* Listen(ctx): cmd.out.Listen: live from now; on a closed channel the
\* subscription gets the final items, then ends.
Listen(s) ==
    /\ subFrom[s] < 0
    /\ subFrom' = [subFrom EXCEPT ![s] =
                      IF outClosed THEN outEnd - outFinal ELSE Len(outLog)]
    /\ subPre' = [subPre EXCEPT ![s] = (nStart = 0)]
    /\ subPost' = [subPost EXCEPT ![s] = (nStart > 0)]
    /\ UNCHANGED <<ctlVars, runVars, clVars, pumpVars, outVars, shimVars,
                   specVars>>

\* The scope given to New is cancelled: cmd.ctx, derived from it, is too.
OuterCancel ==
    /\ ~ctxDone
    /\ Cancel
    /\ UNCHANGED <<started, killOnce, waitCloses, cleanups, waitErr,
                   waitErrLate, stdinCloses>>
    /\ UNCHANGED <<runVars, clVars, pumpVars, outVars, shimVars, subVars, specVars>>

\* ------------------------------------------------------------- cleanupCmd
\* A cleanupCmd that never closes cmd.out.
CleanupOutNever(fromRun) == UNCHANGED outVars

\* cleanupCmd, first statement: `if !started { cmd.out.Close() }`
CleanupOut(fromRun) ==
    IF fromRun THEN UNCHANGED outVars ELSE StreamClose(<<>>)

\* cleanupCmd: cmd.waitErr = errors.Join(cmd.waitErr, cmd.stdin.Close())
CleanupStdin(fromRun, fails) ==
    /\ stdinCloses' = stdinCloses + 1
    /\ cleanups' = IF fromRun THEN <<cleanups[1] + 1, cleanups[2]>>
                              ELSE <<cleanups[1], cleanups[2] + 1>>
    /\ JoinWaitErr(IF fails THEN {"closeErr"} ELSE {})

\* cleanupCmd: the deferred close(cmd.wait)
CleanupWait == waitCloses' = waitCloses + 1

\* --------------------------------------------------------------- runCmd
\* runCmd: exitCode() and cmd.out.Push(NewStartMessage())
RunPushStart ==
    /\ rpc = "r_start"
    /\ rpc' = "r_go"
    /\ code' = 0
    /\ StreamPush(StartMsg)
    /\ UNCHANGED <<launches, spawned, kills, killNil, nStart, startWon>>
    /\ UNCHANGED <<ctlVars, clVars, pumpVars, shimVars, subVars, specVars>>

\* runCmd: go cmd.pipeInput(cmd.in.Listen(cmd.ctx), cmd.stdin)
RunGoPipeInput ==
    /\ rpc = "r_go"
    /\ rpc' = "r_run"
    /\ ppc' = "p_loop"
    /\ inq' = <<>>
    /\ UNCHANGED <<cur, wrote, nPushed, preStart>>
    /\ UNCHANGED <<code, launches, spawned, kills, killNil, nStart, startWon>>
    /\ UNCHANGED <<ctlVars, clVars, outVars, shimVars, subVars, specVars>>

\* cmd.cmd.Run(), its Start half: exec refuses to start under a cancelled
\* context, and the spawn itself can fail.
RunStartOutcomes == IF ctxDone THEN {"fail"} ELSE {"spawn", "fail"}

\* What cmd.cmd.Run() can return once the process has been spawned: the
\* process exits by itself with status 0 or not, or it is killed (by exec on
\* cancellation, by CloseTimeout's signal) and Run reports the signal or the
\* context's error.
RunResults ==
    {"ok", "exit"} \cup (IF ctxDone \/ kills > 0 THEN {"signal", "err"} ELSE {})

\* runCmd, lines 223-229: the code set by setCode for a result of Run.
CodeOf(res, n) ==
    CASE res = "ok"     -> 0
      [] res = "exit"   -> n
      [] res = "signal" -> -1
      [] OTHER          -> -1

\* runCmd, line 228: only an error that is no *exec.ExitError is joined.
RunErrOf(res) == IF res \in {"err", "fail"} THEN {"runErr"} ELSE {}

RunSpawn ==
    /\ rpc = "r_run"
    /\ \E o \in RunStartOutcomes :
         IF o = "spawn"
           THEN /\ rpc' = "r_wait"
                /\ spawned' = spawned + 1
                /\ UNCHANGED <<code, waitErr, waitErrLate>>
           ELSE /\ rpc' = "r_send"
                /\ code' = CodeOf("fail", 0)
                /\ JoinIfAny(RunErrOf("fail"))
                /\ UNCHANGED spawned
    /\ UNCHANGED <<launches, kills, killNil, nStart, startWon>>
    /\ UNCHANGED <<started, ctxDone, watcher, killOnce, waitCloses, cleanups,
                   stdinCloses>>
    /\ UNCHANGED <<clVars, pumpVars, outVars, shimVars, subVars, specVars>>

\* cmd.cmd.Run() returns: the process has exited and the copying goroutines
\* (the shims' callers) have finished.
RunReturn ==
    /\ rpc = "r_wait"
    /\ \E res \in RunResults, n \in NonZero :
         /\ code' = CodeOf(res, n)
         /\ JoinIfAny(RunErrOf(res))
    /\ rpc' = "r_send"
    /\ UNCHANGED <<launches, spawned, kills, killNil, nStart, startWon>>
    /\ UNCHANGED <<started, ctxDone, watcher, killOnce, waitCloses, cleanups,
                   stdinCloses>>
    /\ UNCHANGED <<clVars, pumpVars, outVars, shimVars, subVars, specVars>>

\* sendCode (deferred): the exit-code error, then how the Exit message is
\* published.
SendCodeErr == IF code # 0 THEN {"exitCodeErr"} ELSE {}
\* A sendCode that publishes Exit with Push and leaves the channel open.
SendCodePublishOpen == StreamPush(ExitMsg(code))
SendCodePublish == StreamClose(<<ExitMsg(code)>>)

RunSendCode ==
    /\ rpc = "r_send"
    /\ rpc' = "r_clean"
    /\ JoinIfAny(SendCodeErr)
    /\ SendCodePublish
    /\ UNCHANGED <<code, launches, spawned, kills, killNil, nStart, startWon>>
    /\ UNCHANGED <<started, ctxDone, watcher, killOnce, waitCloses, cleanups,
                   stdinCloses>>
    /\ UNCHANGED <<clVars, pumpVars, shimVars, subVars, specVars>>

\* cleanupCmd(true) (deferred first, so run last), up to the stdin close
RunCleanup ==
    /\ rpc = "r_clean"
    /\ rpc' = "r_close"
    /\ CleanupOut(TRUE)
    /\ \E fails \in BOOLEAN : CleanupStdin(TRUE, fails)
    /\ UNCHANGED <<code, launches, spawned, kills, killNil, nStart, startWon>>
    /\ UNCHANGED <<started, ctxDone, watcher, killOnce, waitCloses>>
    /\ UNCHANGED <<clVars, pumpVars, shimVars, subVars, specVars>>

\* cleanupCmd(true): close(cmd.wait)
RunCloseWait ==
    /\ rpc = "r_close"
    /\ rpc' = "r_done"
    /\ CleanupWait
    /\ UNCHANGED <<code, launches, spawned, kills, killNil, nStart, startWon>>
    /\ UNCHANGED <<started, ctxDone, watcher, killOnce, cleanups, waitErr,
                   waitErrLate, stdinCloses>>
    /\ UNCHANGED <<clVars, pumpVars, outVars, shimVars, subVars, specVars>>

\* ------------------------------------------------------ kindWriter.Write
\* A shim that never looks at the context.
ShimRefusesNever == FALSE

\* Write, lines 283-285: the context check made on each chunk.
ShimRefuses == ctxDone

\* Write's results: (0, kw.ctx.Err()) or (len(b), nil).
WriteReturn == IF ShimRefuses THEN <<0, "ctxErr">> ELSE <<ChunkLen, "nil">>

\* Write: one invocation on one chunk b; the message carries a copy of b
\* (slices.Clone), a value of its own.  After an error the copying goroutine
\* stops calling the shim.
Write(k, max) ==
    /\ rpc = "r_wait"
    /\ wpc[k] = "idle"
    /\ nChunks < max
    /\ nChunks' = nChunks + 1
    /\ wret' = [wret EXCEPT ![k] = WriteReturn]
    /\ IF ShimRefuses
         THEN wpc' = [wpc EXCEPT ![k] = "dead"] /\ UNCHANGED outVars
         ELSE StreamPush(StdioMsg(k, nChunks + 1)) /\ UNCHANGED wpc
    /\ UNCHANGED <<ctlVars, runVars, clVars, pumpVars, subVars, specVars>>

\* ------------------------------------------------------------- pipeInput
\* A receive that takes the newest item of the queue.
PumpNextLast(q) == q[Len(q)]

\* pipeInput, line 298: the item the select receives from its subscription.
PumpNext(q) == Head(q)
PumpRest(q) == Tail(q)

\* pipeInput: the loop condition and the select's ctx.Done() case (also the
\* subscription's channel closing with its scope): the goroutine returns.
PumpStop ==
    /\ ppc = "p_loop"
    /\ ctxDone
    /\ ppc' = "p_cancel"
    /\ UNCHANGED <<inq, cur, wrote, nPushed, preStart>>
    /\ UNCHANGED <<ctlVars, runVars, clVars, outVars, shimVars, subVars, specVars>>

\* The pipe's write end is closed: by the controller, or by exec once Run
\* has failed or returned.
StdinGone == stdinCloses > 0 \/ rpc \in {"r_send", "r_clean", "r_close", "r_done"}

\* n, err := in.Write(b): <<n, err # nil>>; a write that is not complete
\* reports an error.
WriteResults ==
    IF StdinGone
      THEN {<<0, TRUE>>}
      ELSE {<<ItemLen, FALSE>>} \cup {<<n, TRUE>> : n \in 0..(ItemLen - 1)}

\* pipeInput, lines 298-301: the select receives an item (it may do so with
\* the context cancelled after the loop condition was evaluated: both cases
\* are ready) and writes it to stdin.
PumpWrite ==
    /\ ppc = "p_loop"
    /\ inq # <<>>
    /\ inq' = PumpRest(inq)
    /\ \E r \in WriteResults :
         /\ cur' = <<PumpNext(inq), r[1], r[2]>>
         /\ wrote' = Append(wrote, <<PumpNext(inq), r[1]>>)
    /\ ppc' = "p_push"
    /\ UNCHANGED <<nPushed, preStart>>
    /\ UNCHANGED <<ctlVars, runVars, clVars, outVars, shimVars, subVars, specVars>>

\* An echo of the whole item, whatever was written.
EchoWhole(c) == StdinMsg(c[1], ItemLen)

\* pipeInput, line 302: NewStdioMessage[StdinMessage](b[:n])
EchoOf(c) == StdinMsg(c[1], c[2])

\* pipeInput, lines 302-304: publish the StdinEcho, return on a write error.
PumpEcho ==
    /\ ppc = "p_push"
    /\ StreamPush(EchoOf(cur))
    /\ ppc' = IF cur[3] THEN "p_cancel" ELSE "p_loop"
    /\ UNCHANGED <<inq, cur, wrote, nPushed, preStart>>
    /\ UNCHANGED <<ctlVars, runVars, clVars, shimVars, subVars, specVars>>

\* A pipeInput that returns without cancelling the context.
PumpDeferNothing == UNCHANGED <<ctxDone, watcher>>

\* pipeInput, line 292: defer cmd.cancel()
PumpDeferCancel == Cancel

\* pipeInput: the deferred cmd.cancel()
PumpCancel ==
    /\ ppc = "p_cancel"
    /\ ppc' = "p_close"
    /\ PumpDeferCancel
    /\ UNCHANGED <<inq, cur, wrote, nPushed, preStart>>
    /\ UNCHANGED <<started, killOnce, waitCloses, cleanups, waitErr,
                   waitErrLate, stdinCloses>>
    /\ UNCHANGED <<runVars, clVars, outVars, shimVars, subVars, specVars>>

\* pipeInput: the deferred in.Close()
PumpClose ==
    /\ ppc = "p_close"
    /\ ppc' = "p_done"
    /\ stdinCloses' = stdinCloses + 1
    /\ UNCHANGED <<inq, cur, wrote, nPushed, preStart>>
    /\ UNCHANGED <<started, ctxDone, watcher, killOnce, waitCloses, cleanups,
                   waitErr, waitErrLate>>
    /\ UNCHANGED <<runVars, clVars, outVars, shimVars, subVars, specVars>>

\* ---------------------------------------------------- Close / CloseTimeout
\* CloseTimeout, lines 194-195: cmd.cancel(), then cmd.stop().  The watcher's
\* own call is Close(), made once its callback has been started.
CloseCall(c, t) ==
    /\ cpc[c] = "idle"
    /\ IF c = Watcher THEN watcher = "fired" /\ t = FALSE ELSE TRUE
    /\ ctxDone' = TRUE
    /\ watcher' = StopWatcher(IF CancelFires THEN "fired" ELSE watcher)
    /\ cpc' = [cpc EXCEPT ![c] = "cas"]
    /\ ctimed' = [ctimed EXCEPT ![c] = t]
    /\ UNCHANGED <<cnever, ckill, cret>>
    /\ UNCHANGED <<started, killOnce, waitCloses, cleanups, waitErr,
                   waitErrLate, stdinCloses>>
    /\ UNCHANGED <<runVars, pumpVars, outVars, shimVars, subVars, specVars>>

\* A CloseTimeout that always takes its never-started branch.
CloseWinsAlways == TRUE

\* cmd.started.CompareAndSwap(false, true) in CloseTimeout
CloseWins == started = FALSE

CloseCAS(c) ==
    /\ cpc[c] = "cas"
    /\ IF CloseWins
         THEN /\ started' = TRUE
              /\ cnever' = [cnever EXCEPT ![c] = TRUE]
              /\ cpc' = [cpc EXCEPT ![c] = "n_out"]
         ELSE /\ cpc' = [cpc EXCEPT ![c] = "k_once"]
              /\ UNCHANGED <<started, cnever>>
    /\ UNCHANGED <<ctimed, ckill, cret>>
    /\ UNCHANGED <<ctxDone, watcher, killOnce, waitCloses, cleanups, waitErr,
                   waitErrLate, stdinCloses>>
    /\ UNCHANGED <<runVars, pumpVars, outVars, shimVars, subVars, specVars>>

\* never started: cleanupCmd(false), cmd.out.Close()
CloseCleanupOut(c) ==
    /\ cpc[c] = "n_out"
    /\ cpc' = [cpc EXCEPT ![c] = "n_stdin"]
    /\ CleanupOut(FALSE)
    /\ UNCHANGED <<ctimed, cnever, ckill, cret>>
    /\ UNCHANGED <<ctlVars, runVars, pumpVars, shimVars, subVars, specVars>>

\* never started: cleanupCmd(false), the stdin close
CloseCleanupStdin(c) ==
    /\ cpc[c] = "n_stdin"
    /\ cpc' = [cpc EXCEPT ![c] = "n_wait"]
    /\ \E fails \in BOOLEAN : CleanupStdin(FALSE, fails)
    /\ UNCHANGED <<ctimed, cnever, ckill, cret>>
    /\ UNCHANGED <<started, ctxDone, watcher, killOnce, waitCloses>>
    /\ UNCHANGED <<runVars, pumpVars, outVars, shimVars, subVars, specVars>>

\* never started: cleanupCmd(false), close(cmd.wait)
CloseCleanupWait(c) ==
    /\ cpc[c] = "n_wait"
    /\ cpc' = [cpc EXCEPT ![c] = "n_once"]
    /\ CleanupWait
    /\ UNCHANGED <<ctimed, cnever, ckill, cret>>
    /\ UNCHANGED <<started, ctxDone, watcher, killOnce, cleanups, waitErr,
                   waitErrLate, stdinCloses>>
    /\ UNCHANGED <<runVars, pumpVars, outVars, shimVars, subVars, specVars>>

\* never started: cmd.killOnce.Do(func() {}); Do blocks while another call's
\* function is running.
CloseOnceEmpty(c) ==
    /\ cpc[c] = "n_once"
    /\ killOnce # "running"
    /\ killOnce' = "done"
    /\ cpc' = [cpc EXCEPT ![c] = "await"]
    /\ UNCHANGED <<ctimed, cnever, ckill, cret>>
    /\ UNCHANGED <<started, ctxDone, watcher, waitCloses, cleanups, waitErr,
                   waitErrLate, stdinCloses>>
    /\ UNCHANGED <<runVars, pumpVars, outVars, shimVars, subVars, specVars>>

\* A Once that runs the function of every call.
OnceFirstAlways == TRUE

\* sync.Once.Do: only the first call runs its function.
OnceFirst == killOnce = "fresh"

\* started: cmd.killOnce.Do(func() { if timeout > 0 { select ... } })
CloseOnceKill(c) ==
    /\ cpc[c] = "k_once"
    /\ killOnce # "running"
    /\ IF OnceFirst
         THEN /\ ckill' = [ckill EXCEPT ![c] = TRUE]
              /\ IF ctimed[c]
                   THEN killOnce' = "running" /\ cpc' = [cpc EXCEPT ![c] = "k_select"]
                   ELSE killOnce' = "done" /\ cpc' = [cpc EXCEPT ![c] = "await"]
         ELSE /\ cpc' = [cpc EXCEPT ![c] = "await"]
              /\ UNCHANGED <<killOnce, ckill>>
    /\ UNCHANGED <<ctimed, cnever, cret>>
    /\ UNCHANGED <<started, ctxDone, watcher, waitCloses, cleanups, waitErr,
                   waitErrLate, stdinCloses>>
    /\ UNCHANGED <<runVars, pumpVars, outVars, shimVars, subVars, specVars>>

\* the select's `case <-cmd.Done()`
CloseSelectDone(c) ==
    /\ cpc[c] = "k_select"
    /\ waitCloses > 0
    /\ killOnce' = "done"
    /\ cpc' = [cpc EXCEPT ![c] = "await"]
    /\ UNCHANGED <<ctimed, cnever, ckill, cret>>
    /\ UNCHANGED <<started, ctxDone, watcher, waitCloses, cleanups, waitErr,
                   waitErrLate, stdinCloses>>
    /\ UNCHANGED <<runVars, pumpVars, outVars, shimVars, subVars, specVars>>

\* the select's `case <-time.After(timeout)`:
\* cmd.cmd.Process.Signal(os.Kill); Process is nil until Run has spawned.
CloseSelectTimeout(c) ==
    /\ cpc[c] = "k_select"
    /\ kills' = kills + 1
    /\ killNil' = (killNil \/ spawned = 0)
    /\ killOnce' = "done"
    /\ cpc' = [cpc EXCEPT ![c] = "await"]
    /\ UNCHANGED <<ctimed, cnever, ckill, cret>>
    /\ UNCHANGED <<rpc, code, launches, spawned, nStart, startWon>>
    /\ UNCHANGED <<started, ctxDone, watcher, waitCloses, cleanups, waitErr,
                   waitErrLate, stdinCloses>>
    /\ UNCHANGED <<pumpVars, outVars, shimVars, subVars, specVars>>

\* A CloseTimeout that returns cmd.waitErr without waiting for Done.
DoneReadyEarly == TRUE

\* CloseTimeout, line 211: <-cmd.Done()
DoneReady == waitCloses > 0

\* CloseTimeout, lines 211-212: <-cmd.Done(); return cmd.waitErr
CloseReturn(c) ==
    /\ cpc[c] = "await"
    /\ DoneReady
    /\ cret' = [cret EXCEPT ![c] = waitErr]
    /\ cpc' = [cpc EXCEPT ![c] = "ret"]
    /\ UNCHANGED <<ctimed, cnever, ckill>>
    /\ UNCHANGED <<ctlVars, runVars, pumpVars, outVars, shimVars, subVars, specVars>>

\* ------------------------------------------------------------------ specs
\* The goroutines of a started controller.
RunSteps ==
    \/ RunPushStart
    \/ RunGoPipeInput
    \/ RunSpawn
    \/ RunReturn
    \/ RunSendCode
    \/ RunCleanup
    \/ RunCloseWait

PumpExit ==
    \/ PumpStop
    \/ PumpCancel
    \/ PumpClose

PumpItems ==
    \/ PumpWrite
    \/ PumpEcho

\* The steps of the Close/CloseTimeout calls of the closers in cs.
CloseSteps(cs) ==
    \/ \E c \in cs, t \in BOOLEAN : CloseCall(c, t)
    \/ \E c \in cs : CloseCAS(c)
    \/ \E c \in cs : CloseCleanupOut(c)
    \/ \E c \in cs : CloseCleanupStdin(c)
    \/ \E c \in cs : CloseCleanupWait(c)
    \/ \E c \in cs : CloseOnceEmpty(c)
    \/ \E c \in cs : CloseOnceKill(c)
    \/ \E c \in cs : CloseSelectDone(c)
    \/ \E c \in cs : CloseSelectTimeout(c)
    \/ \E c \in cs : CloseReturn(c)

\* The watcher's callback: Close(), that is CloseTimeout(0).
WatcherSteps ==
    \/ CloseCall(Watcher, FALSE)
    \/ CloseCAS(Watcher)
    \/ CloseCleanupOut(Watcher)
    \/ CloseCleanupStdin(Watcher)
    \/ CloseCleanupWait(Watcher)
    \/ CloseOnceEmpty(Watcher)
    \/ CloseOnceKill(Watcher)
    \/ CloseReturn(Watcher)

\* Lifecycle: concurrent Start and Close/CloseTimeout callers, the watcher,
\* cancellation of the outer scope; nothing is pushed or subscribed.
Next ==
    \/ Start(MaxStartCalls)
    \/ OuterCancel
    \/ RunSteps
    \/ PumpExit
    \/ CloseSteps(AllClosers)

Spec == Init /\ [][Next]_vars

\* Message stream: subscriptions, the shims and the input pump publishing to
\* cmd.out; shutdown comes from the outer scope and the watcher's Close().
StreamNext ==
    \/ Start(OneStart)
    \/ Push(1, StreamPushed)
    \/ \E s \in Subs : Listen(s)
    \/ OuterCancel
    \/ RunSteps
    \/ \E k \in Shims : Write(k, MaxChunks)
    \/ PumpExit
    \/ PumpItems
    \/ WatcherSteps

StreamSpec == Init /\ [][StreamNext]_vars

\* Message stream of a controller nobody closes: StreamSpec without the
\* watcher's Close(), whose steps on a started controller touch neither
\* cmd.out nor a subscription; shutdown is the cancellation of the context.
ListenNext ==
    \/ Start(OneStart)
    \/ Push(1, StreamPushed)
    \/ \E s \in Subs : Listen(s)
    \/ OuterCancel
    \/ RunSteps
    \/ \E k \in Shims : Write(k, MaxChunks)
    \/ PumpExit
    \/ PumpItems

ListenSpec == Init /\ [][ListenNext]_vars

\* Input queue: Push calls against the input pump.
InputNext ==
    \/ Start(OneStart)
    \/ \E k \in 1..MaxBatch : Push(k, MaxPushed)
    \/ OuterCancel
    \/ RunSteps
    \/ PumpExit
    \/ PumpItems
    \/ WatcherSteps

InputSpec == Init /\ [][InputNext]_vars

\* Process output: the shims called by the process's writes while the outer
\* scope may die; nothing is pushed or subscribed.
ShimNext ==
    \/ Start(OneStart)
    \/ OuterCancel
    \/ RunSteps
    \/ \E k \in Shims : Write(k, ShimChunks)
    \/ PumpExit
    \/ WatcherSteps

ShimSpec == Init /\ [][ShimNext]_vars

\* Explicit shutdown: the outer scope stays alive, so the first to cancel
\* cmd.ctx is a Close/CloseTimeout call made by a caller.
ShutdownNext ==
    \/ Start(OneStart)
    \/ RunSteps
    \/ PumpExit
    \/ CloseSteps(AllClosers)

ShutdownSpec == Init /\ [][ShutdownNext]_vars

\* The steps of runCmd that only need the goroutine to be scheduled.
RunSched ==
    \/ RunPushStart
    \/ RunGoPipeInput
    \/ RunSpawn
    \/ RunSendCode
    \/ RunCleanup
    \/ RunCloseWait

\* exec.CommandContext kills the process once cmd.ctx is done, so cmd.cmd.Run
\* returns; a process nobody stops may run forever.
RunKilled == ctxDone /\ RunReturn

\* No caller ever calls Close: the goroutines of InputSpec, scheduled fairly.
\* A write to stdin is not required to happen; its echo and the pump's exit
\* are.
LiveSpec ==
    /\ Init /\ [][InputNext]_vars
    /\ WF_vars(RunSched) /\ WF_vars(RunKilled)
    /\ WF_vars(PumpEcho) /\ WF_vars(PumpExit)
    /\ WF_vars(WatcherSteps)

\* ----------------------------------------------------------------- claims
Returned(c) == cpc[c] = "ret"

\* C1: under every interleaving of Start and Close/CloseTimeout calls runCmd
\* is launched at most once and at most one process is spawned; it is
\* launched exactly once when a Start wins the compare-and-swap, and every
\* other Start is a no-op.
C1_StartOnce ==
    /\ launches <= 1
    /\ spawned <= launches
    /\ startWon <= 1
    /\ launches = (IF startWon > 0 THEN 1 ELSE 0)
    /\ (rpc = "none") = (launches = 0)

\* Two Start calls raced with a Close: one launch, one process.
C1_Witness ==
    /\ nStart = MaxStartCalls
    /\ launches = 1 /\ spawned = 1
    /\ cpc[1] # "idle"

\* C2: the wait channel is closed exactly once: cleanupCmd runs at most once
\* over the controller's life, from runCmd or from the Close call that won
\* the never-started compare-and-swap, never from both, and has run when a
\* Close call returns or runCmd ends.
C2_DoneOnce ==
    /\ waitCloses <= 1
    /\ cleanups[1] + cleanups[2] <= 1
    /\ waitCloses <= cleanups[1] + cleanups[2]
    /\ cleanups[1] = 1 => launches = 1
    /\ cleanups[2] = 1 => launches = 0 /\ \E c \in AllClosers : cnever[c]
    /\ \A c \in AllClosers : Returned(c) => waitCloses = 1
    /\ rpc = "r_done" => waitCloses = 1 /\ cleanups = <<1, 0>>

\* A started controller on which both callers and the watcher closed.
C2_Witness ==
    /\ rpc = "r_done"
    /\ \A c \in AllClosers : Returned(c)
    /\ waitCloses = 1

\* C3: a Close/CloseTimeout call returns only after the wait channel is
\* closed, all calls return the same accumulated error, and cmd.waitErr is
\* never written after the channel is closed.
C3_SameError ==
    /\ ~waitErrLate
    /\ \A c \in AllClosers : Returned(c) => waitCloses >= 1 /\ cret[c] = waitErr
    /\ \A c, d \in AllClosers : Returned(c) /\ Returned(d) => cret[c] = cret[d]

\* A caller that triggered shutdown and one that came later return the same
\* error of a started controller, made of an exit-code and a close error.
C3_Witness ==
    /\ Returned(1) /\ Returned(2) /\ Returned(Watcher)
    /\ launches = 1
    /\ cret[1] = {"exitCodeErr", "closeErr"}

IsStdin(m) == m[1] = "Stdin"
Echoes(r) ==
    LET e == SelectSeq(r, IsStdin)
    IN  [i \in 1..Len(e) |-> <<e[i][2], e[i][3]>>]
Items(w) == {w[i][1] : i \in 1..Len(w)}

C6_NoReplay ==
    \A s \in Subs : subPost[s] =>
        \A i \in 1..Len(Received(s)) : Received(s)[i] # StartMsg

\* C7: the controller calls Close on the stdin pipe exactly once over its
\* life: never a second time, and once when the wait channel is closed.
C7_StdinClosedOnce ==
    /\ stdinCloses <= 1
    /\ waitCloses > 0 => stdinCloses = 1

\* C8: once the process-wait task has closed the channel with the Exit
\* message, no producer publishes another message to it.
C8_ExitLast ==
    outClosed /\ outFinal = 1 => Len(outLog) = outEnd

\* C9: the inputs pushed before Start are delivered once the controller is
\* started: with the process alive, the context not cancelled and the pump
\* waiting on an empty queue, each of them has been written to stdin and
\* echoed, in the order pushed.
C9_PreStartDelivered ==
    (rpc = "r_wait" /\ ppc = "p_loop" /\ inq = <<>> /\ ~ctxDone) =>
        /\ \A i \in 1..preStart : i \in Items(wrote)
        /\ \A i \in 1..preStart : i \in Items(Echoes(outLog))

\* C10: the items written to stdin, and the StdinEcho messages, follow the
\* order in which the items were pushed: no item is written twice or out of
\* order, and what is still queued comes after what was written.
C10_FIFO ==
    /\ \A j \in 1..Len(wrote) : wrote[j][1] \in 1..nPushed
    /\ \A j \in 1..(Len(wrote) - 1) : wrote[j][1] < wrote[j + 1][1]
    /\ \A j \in 1..(Len(inq) - 1) : inq[j] < inq[j + 1]
    /\ \A j \in 1..Len(inq), i \in 1..Len(wrote) : wrote[i][1] < inq[j]
    /\ LET e == Echoes(outLog)
       IN  /\ Len(e) <= Len(wrote)
           /\ Len(wrote) <= Len(e) + 1
           /\ \A j \in 1..Len(e) : e[j] = wrote[j]
           /\ ppc # "p_push" => Len(e) = Len(wrote)

\* Two items pushed in one Push call were written whole and echoed in order.
C10_Witness ==
    /\ wrote = <<<<1, ItemLen>>, <<2, ItemLen>>>>
    /\ Echoes(outLog) = wrote

\* C11: on a started controller whose process is running, the first explicit
\* shutdown call, a CloseTimeout(d) with d > 0, gets past its wait-then-kill
\* step with the process still running only by sending the forced-kill
\* signal, whatever the watcher's Close() does meanwhile.
C11_TimeoutKills ==
    \A c \in Callers :
        (/\ ctimed[c] /\ ~cnever[c] /\ cpc[c] = "await"
         /\ \A d \in Callers \ {c} : cpc[d] = "idle"
         /\ launches = 1 /\ rpc = "r_wait") => kills >= 1

\* C12: an explicit Close/CloseTimeout call never makes the watcher's
\* callback run: the step in which a caller's call cancels the context and
\* stops the watcher does not leave an armed watcher fired.
C12_ExplicitCloseDisarms ==
    [][\A c \in Callers :
          (cpc[c] = "idle" /\ cpc'[c] # "idle" /\ watcher = "armed")
              => watcher' # "fired"]_vars

\* The controller is Done with its resources released by one cleanupCmd: never
\* started, no process and a closed output channel; started, the process
\* ended, the pump ended, Exit published as the channel's last message.
C13_Released ==
    /\ waitCloses = 1
    /\ cleanups[1] + cleanups[2] = 1
    /\ cpc[Watcher] = "ret"
    /\ outClosed
    /\ IF launches = 0
         THEN spawned = 0 /\ rpc = "none" /\ cleanups = <<0, 1>>
         ELSE /\ rpc = "r_done" /\ ppc = "p_done" /\ cleanups = <<1, 0>>
              /\ outFinal = 1 /\ outLog[outEnd] = ExitMsg(code)

C14_ExitAgrees ==
    rpc \in {"r_clean", "r_close", "r_done"} =>
        /\ outClosed /\ outFinal = 1 /\ outLog[outEnd] = ExitMsg(code)
        /\ code = 0 => "exitCodeErr" \notin waitErr /\ "runErr" \notin waitErr
        /\ code > 0 => "exitCodeErr" \in waitErr /\ "runErr" \notin waitErr
        /\ code < 0 => "exitCodeErr" \in waitErr /\ "runErr" \in waitErr

\* What the methods of a Command value return to a caller that uses each
\* capability by itself: nothing for a capability the value does not have.
ArgsOf(sp) == IF "args" \in sp.caps THEN sp.args ELSE <<>>
EnvOf(sp)  == IF "env" \in sp.caps THEN sp.env ELSE <<>>

\* C15: WithEnv returns a value with the input's command and args and the
\* input's environment followed by the additions; commandCollect returns the
\* input's command, its args (never its environment) and its environment,
\* empty for a capability the input does not have.
C15_WithEnvAppends ==
    /\ "WithEnv" \in wdone =>
          /\ wnew.command = wspec.command
          /\ ArgsOf(wnew) = ArgsOf(wspec)
          /\ EnvOf(wnew) = EnvOf(wspec) \o wadd
    /\ "commandCollect" \in wdone =>
          wgot = <<wspec.command, ArgsOf(wspec), EnvOf(wspec)>>

\* The calls that ran the wait-then-kill function of killOnce.
Killers == {c \in AllClosers : ckill[c]}

\* C16: over all Close/CloseTimeout calls, the watcher's included, the
\* wait-then-kill function runs in at most one call, at most one call is in
\* its select, and the kill signal is sent at most once, by that call, which
\* has a timeout; every other call goes straight to waiting for Done.
C16_KillOnce ==
    /\ Cardinality(Killers) <= 1
    /\ kills <= 1
    /\ kills = 1 => \E c \in Killers : ctimed[c] /\ cpc[c] \in {"await", "ret"}
    /\ \A c \in AllClosers :
          cpc[c] = "k_select" =>
              /\ Killers = {c} /\ ctimed[c] /\ killOnce = "running" /\ kills = 0
    /\ \A c \in AllClosers : cnever[c] => c \notin Killers

\* Two callers with a timeout and the watcher closed a started controller:
\* one signal was sent and all three returned.
C16_Witness ==
    /\ launches = 1 /\ spawned = 1
    /\ ctimed[1] /\ ctimed[2]
    /\ \A c \in AllClosers : Returned(c)
    /\ kills = 1

\* C18: whenever CloseTimeout's timeout branch signals cmd.cmd.Process, a
\* process has been spawned: no signal was ever sent through the nil Process
\* of a controller whose Run has not spawned, or never spawns, the process.
C18_SignalHasProcess ==
    /\ ~killNil
    /\ kills > 0 => spawned > 0

\* C17: every item the pump takes is written once and echoed once, the echo
\* carrying the number of bytes the write reported, also for a failed write;
\* only a write without error is followed by another, and the pump ends
\* only after a failed write or with the context cancelled.
C17_OneWriteOneEcho ==
    LET e == Echoes(outLog)
        n == Len(wrote)
    IN  /\ \A i, j \in 1..n : wrote[i][1] = wrote[j][1] => i = j
        /\ \A j \in 1..n : wrote[j][2] \in 0..ItemLen
        /\ Len(e) = (IF ppc = "p_push" THEN n - 1 ELSE n)
        /\ \A j \in 1..Len(e) : e[j] = wrote[j]
        /\ ppc = "p_push" => cur = <<wrote[n][1], wrote[n][2], wrote[n][2] < ItemLen>>
        /\ \A j \in 1..(n - 1) : wrote[j][2] = ItemLen
        /\ ppc \in {"p_cancel", "p_close", "p_done"} =>
              ctxDone \/ (n > 0 /\ wrote[n][2] < ItemLen)
        /\ ppc = "p_loop" /\ n > 0 => wrote[n][2] = ItemLen

\* The first item was written whole, the write of the second failed after
\* one byte: both were echoed as written and the pump ended.
C17_Witness ==
    /\ wrote = <<<<1, ItemLen>>, <<2, 1>>>>
    /\ Echoes(outLog) = wrote
    /\ ppc = "p_done"

\* The controller has reached Done after the watcher ran Close(): the
\* process ended and runCmd finished its cleanup.
C19_Done ==
    /\ ctxDone /\ watcher = "fired"
    /\ rpc = "r_done" /\ waitCloses = 1
    /\ cpc[Watcher] = "ret"

\* C19: the pump never ends without having cancelled the context; and with
\* no caller calling Close, a failed write to the stdin of a spawned process
\* leads to the context cancelled, the process ended, the watcher's Close()
\* run and returned, and the controller Done.
C19_PumpEndCancels ==
    /\ [](ppc \in {"p_close", "p_done"} => ctxDone)
    /\ (ppc = "p_push" /\ cur[3] /\ spawned = 1) ~> C19_Done

\* A write to the open stdin of a spawned process failed after one byte, the
\* pump ended and the controller got to Done.
C19_Witness ==
    /\ C19_Done
    /\ spawned = 1
    /\ wrote = <<<<1, 1>>>>
    /\ ppc = "p_done"

\* C20: a shim invoked with a chunk while the context is cancelled publishes
\* nothing and returns 0 bytes with the context's error; invoked while it is
\* not cancelled it publishes one message, Stdout or Stderr by the shim,
\* carrying that chunk, and returns the chunk's length with no error.
C20_ShimWrites ==
    [][nChunks' # nChunks =>
          IF ctxDone
            THEN /\ outLog' = outLog
                 /\ \E k \in Shims :
                       /\ wret' = [wret EXCEPT ![k] = <<0, "ctxErr">>]
                       /\ wpc[k] = "idle" /\ wpc'[k] = "dead"
            ELSE /\ wpc' = wpc
                 /\ \E k \in Shims :
                       /\ wret' = [wret EXCEPT ![k] = <<ChunkLen, "nil">>]
                       /\ outLog' = Append(outLog, <<k, nChunks', ChunkLen>>)]_vars

\* The process wrote a chunk to each shim, the context was cancelled and it
\* wrote one more to stderr: two messages were published, the third write
\* returned the error.
C20_Witness ==
    /\ nChunks = 3
    /\ outClosed
    /\ outLog = <<StartMsg, <<"Stdout", 1, ChunkLen>>,
                  <<"Stderr", 2, ChunkLen>>, ExitMsg(code)>>
    /\ wret = [k \in Shims |-> IF k = "Stderr" THEN <<0, "ctxErr">>
                                                ELSE <<ChunkLen, "nil">>]

====
